---- MODULE Spec2Model ----
(***************************************************************************)
(* A model of abook.py: the Abook address book facade (class Abook), its   *)
(* UID scheme (_gen_uid and the split/hash verification in remove,         *)
(* replace_vobject and to_vobject) and the Abook <-> vCard conversion.     *)
(*                                                                         *)
(* Strings are sequences of one-character strings, so that str.split,      *)
(* str.join and '%s' formatting are computed as Python computes them.      *)
(* The store file is the ordered mapping ConfigParser reads and writes:    *)
(* the default section "format" and the data sections in file order.       *)
(***************************************************************************)
EXTENDS Integers, Sequences, FiniteSets, TLC

(***************************************************************************)
(* Bounds of the model.                                                    *)
(***************************************************************************)
\* largest section index the model lets append allocate
MaxKey == 1
\* largest modification time (clock ticks) of the store file
MaxTime == 2
\* largest number of cards in the vCard stream abook_file imports
MaxImport == 2
\* calls the threads of the concurrent specification make in total
MaxCalls == 2
\* rewrites of the store file by another process (concurrent specification)
MaxExt == 1

(***************************************************************************)
(* Strings.                                                                *)
(***************************************************************************)
DigitChars == <<"0", "1", "2", "3", "4", "5", "6", "7", "8", "9">>

\* str(n) / '%s' % n for a non-negative int
RECURSIVE IntToStr(_)
IntToStr(n) ==
    IF n < 10 THEN <<DigitChars[n + 1]>>
    ELSE IntToStr(n \div 10) \o <<DigitChars[(n % 10) + 1]>>

DigitVal(c) == (CHOOSE i \in 1..10 : DigitChars[i] = c) - 1

\* int(k) for a string of decimal digits
RECURSIVE StrToInt(_)
StrToInt(s) ==
    IF Len(s) = 1 THEN DigitVal(s[1])
    ELSE 10 * StrToInt(SubSeq(s, 1, Len(s) - 1)) + DigitVal(s[Len(s)])

\* s.split(sep) for a one-character separator: always at least one part
RECURSIVE Split(_, _)
Split(s, sep) ==
    IF s = <<>> THEN << <<>> >>
    ELSE LET r == Split(Tail(s), sep)
         IN  IF Head(s) = sep
             THEN << <<>> >> \o r
             ELSE << <<Head(s)>> \o Head(r) >> \o Tail(r)

\* sep.join(parts)
RECURSIVE Join(_, _)
Join(parts, sep) ==
    IF parts = <<>> THEN <<>>
    ELSE IF Len(parts) = 1 THEN parts[1]
    ELSE parts[1] \o sep \o Join(Tail(parts), sep)

\* max(list) of a non-empty sequence of ints
RECURSIVE MaxOf(_)
MaxOf(xs) ==
    IF Len(xs) = 1 THEN xs[1]
    ELSE LET m == MaxOf(Tail(xs)) IN IF xs[1] > m THEN xs[1] ELSE m

\* entry[k] = v on a mapping
Put(entry, k, v) == [x \in (DOMAIN entry) \cup {k} |-> IF x = k THEN v ELSE entry[x]]

EmptyMap == [x \in {} |-> <<>>]

(***************************************************************************)
(* Names, digests, UIDs.                                                   *)
(***************************************************************************)
NameAB == <<"A", " ", "B">>
NameC == <<"C">>
Names == {NameAB, NameC}

\* sha1(name.encode('utf-8')).hexdigest(): the leading hex digits of the
\* real SHA-1 digests of the model's names (distinct names, distinct digests)
Sha1Hex(name) ==
    CASE name = NameAB -> <<"8", "a", "a", "b">>
      [] name = NameC -> <<"3", "2", "0", "9">>
      [] OTHER -> <<"d", "a", "3", "9">>

\* getfqdn(): a host name, here one with a dash in it
Fqdn == <<"h", "-", "x">>

\* a slip: the digest is taken of the index, not of the name
gen_uid_of_index(index, name) == index \o <<"-">> \o Sha1Hex(index) \o <<"@">> \o Fqdn

\* '%s-%s@%s' % (index, sha1(name).hexdigest(), getfqdn())
gen_uid(index, name) == index \o <<"-">> \o Sha1Hex(name) \o <<"@">> \o Fqdn

\* uid = name.split('@')[0].split('-')
SplitUid(uid) == Split(Split(uid, "@")[1], "-")

(***************************************************************************)
(* Cards: the vobject vCard as the code reads and builds it.  A property   *)
(* that may be absent (hasattr) is a sequence of length 0 or 1; email and  *)
(* tel are the email_list and tel_list.                                    *)
(***************************************************************************)
Home == <<"h", "o", "m", "e">>
Work == <<"w", "o", "r", "k">>
Cell == <<"c", "e", "l", "l">>
Jpeg == <<"j", "p", "e", "g">>

UpperChars == <<"A", "B", "C", "D", "E", "F", "H", "L", "M", "O", "W", "X">>
LowerChars == <<"a", "b", "c", "d", "e", "f", "h", "l", "m", "o", "w", "x">>

\* str.lower()
Lower(s) ==
    [i \in 1..Len(s) |->
        IF \E j \in 1..Len(UpperChars) : UpperChars[j] = s[i]
        THEN LowerChars[CHOOSE j \in 1..Len(UpperChars) : UpperChars[j] = s[i]]
        ELSE s[i]]

\* a card with the address zip sentinel "0", two e-mail addresses and an
\* upper-case HOME phone
CardAB ==
    [uid |-> <<>>, fn |-> NameAB, n |-> <<>>,
     email |-> << <<"a", "@", "x">>, <<"b", "@", "y">> >>,
     adr |-> << [street |-> <<"S">>, extended |-> <<>>, city |-> <<"T">>,
                 region |-> <<>>, code |-> <<"0">>, country |-> <<>>] >>,
     tel |-> << [type |-> <<<<"H", "O", "M", "E">>>>, value |-> <<"1">>] >>,
     nickname |-> << <<"a", "b">> >>, url |-> <<>>, note |-> <<>>,
     photo |-> <<>>]

\* a card with an untyped, an unrecognised ("fax") and a cell phone, a note
\* and a photo
CardC ==
    [uid |-> <<>>, fn |-> NameC, n |-> <<>>,
     email |-> <<>>,
     adr |-> <<>>,
     tel |-> << [type |-> <<>>, value |-> <<"2">>],
                [type |-> <<<<"f", "a", "x">>>>, value |-> <<"3">>],
                [type |-> <<Cell>>, value |-> <<"4">>] >>,
     nickname |-> <<>>, url |-> <<>>, note |-> << <<"n">> >>,
     photo |-> << [type |-> Jpeg, value |-> <<"P">>] >>]

\* the cards the callers pass in (readOne(text) / readComponents)
Cards == {CardAB, CardC}

(***************************************************************************)
(* The store as ConfigParser(default_section='format') holds it.           *)
(***************************************************************************)
FormatName == <<"f", "o", "r", "m", "a", "t">>

\* book['format'] as abook_file writes it
FormatHeader ==
    [x \in {"program", "version"} |->
        IF x = "program" THEN <<"a", "b", "o", "o", "k">>
        ELSE <<"0", ".", "6", ".", "1">>]

\* ConfigParser(default_section='format') before any read
NewBook == [format |-> EmptyMap, sections |-> <<>>]

\* book.sections()
Sections(book) == [i \in 1..Len(book.sections) |-> book.sections[i].name]

\* list(book.keys()): the default section, then the sections
Keys(book) == <<FormatName>> \o Sections(book)

HasSection(book, key) == \E i \in 1..Len(book.sections) : book.sections[i].name = key

SectionIndex(book, key) == CHOOSE i \in 1..Len(book.sections) : book.sections[i].name = key

\* key in book (the default section always is)
InBook(book, key) == key = FormatName \/ HasSection(book, key)

\* book[key] as a SectionProxy: the section's options over the defaults
Entry(book, key) ==
    LET own == IF key = FormatName THEN EmptyMap
               ELSE book.sections[SectionIndex(book, key)].fields
    IN  [x \in (DOMAIN book.format) \cup (DOMAIN own) |->
            IF x \in DOMAIN own THEN own[x] ELSE book.format[x]]

\* book[key]['name'] raises KeyError for a missing section or option
NameKnown(book, key) == InBook(book, key) /\ "name" \in DOMAIN Entry(book, key)

\* entry.get(k, '')
Get(entry, k) == IF k \in DOMAIN entry THEN entry[k] ELSE <<>>

\* a slip: an existing section is removed and added anew, at the end
SetSectionAtEnd(book, key, fields) ==
    IF key = FormatName THEN [book EXCEPT !.format = fields]
    ELSE [book EXCEPT !.sections =
             Append(SelectSeq(@, LAMBDA sec : sec.name # key),
                    [name |-> key, fields |-> fields])]

\* book[key] = fields: an existing section is cleared and refilled in place,
\* a new one is added at the end
SetSection(book, key, fields) ==
    IF key = FormatName THEN [book EXCEPT !.format = fields]
    ELSE IF HasSection(book, key)
    THEN [book EXCEPT !.sections[SectionIndex(book, key)].fields = fields]
    ELSE [book EXCEPT !.sections = Append(@, [name |-> key, fields |-> fields])]

\* del book[key] for an existing section
DelSection(book, key) ==
    [book EXCEPT !.sections =
        SubSeq(@, 1, SectionIndex(book, key) - 1)
        \o SubSeq(@, SectionIndex(book, key) + 1, Len(@))]

(***************************************************************************)
(* Abook -> vCard.                                                         *)
(***************************************************************************)
\* Name(family=name.split(' ')[-1], given=name.split(' ')[:-1])
gen_name(name) ==
    LET parts == Split(name, " ")
    IN  [family |-> parts[Len(parts)], given |-> SubSeq(parts, 1, Len(parts) - 1)]

gen_addr(entry) ==
    [street |-> Get(entry, "address"),
     extended |-> Get(entry, "address2"),
     city |-> Get(entry, "city"),
     region |-> Get(entry, "state"),
     code |-> Get(entry, "zip"),
     country |-> Get(entry, "country")]

\* 'photo/%s.%s' % (name, ext), relative to dirname(self.filename)
PhotoPath(name, ext) == name \o <<".">> \o ext

\* photos maps the paths of the photo files that exist to their bytes;
\* open() of any other path raises IOError, which _add_photo swallows
add_photo(card, name, photos) ==
    IF PhotoPath(name, Jpeg) \in DOMAIN photos
    THEN [card EXCEPT !.photo = << [type |-> Jpeg, value |-> photos[PhotoPath(name, Jpeg)]] >>]
    ELSE card

\* the presence test of _to_vcard: 'country' stands twice, 'state' never
addr_comps == <<"address", "address2", "city", "country", "zip", "country">>

\* the tel properties of _to_vcard, in the order they are added
TelOf(entry) ==
    (IF "other" \in DOMAIN entry THEN << [type |-> <<>>, value |-> entry["other"]] >> ELSE <<>>)
    \o (IF "phone" \in DOMAIN entry THEN << [type |-> <<Home>>, value |-> entry["phone"]] >> ELSE <<>>)
    \o (IF "workphone" \in DOMAIN entry THEN << [type |-> <<Work>>, value |-> entry["workphone"]] >> ELSE <<>>)
    \o (IF "mobile" \in DOMAIN entry THEN << [type |-> <<Cell>>, value |-> entry["mobile"]] >> ELSE <<>>)

\* _to_vcard(entry), entry = book[key]; key is entry.name
to_vcard(key, entry, photos) ==
    add_photo(
        [uid |-> << gen_uid(key, entry["name"]) >>,
         fn |-> entry["name"],
         n |-> << gen_name(entry["name"]) >>,
         email |-> IF "email" \in DOMAIN entry THEN Split(entry["email"], ",") ELSE <<>>,
         adr |-> IF \E i \in 1..Len(addr_comps) : addr_comps[i] \in DOMAIN entry
                 THEN << gen_addr(entry) >> ELSE <<>>,
         tel |-> TelOf(entry),
         nickname |-> IF "nick" \in DOMAIN entry THEN << entry["nick"] >> ELSE <<>>,
         url |-> IF "url" \in DOMAIN entry THEN << entry["url"] >> ELSE <<>>,
         note |-> IF "notes" \in DOMAIN entry THEN << entry["notes"] >> ELSE <<>>,
         photo |-> <<>>],
        entry["name"], photos)

\* [self._to_vcard(book[entry]) for entry in book.sections()]
to_vcards(book, photos) ==
    [i \in 1..Len(book.sections) |->
        to_vcard(book.sections[i].name, Entry(book, book.sections[i].name), photos)]

\* [Abook._gen_uid(entry, book[entry]['name']) for entry in book.sections()]
get_uids(book) ==
    [i \in 1..Len(book.sections) |->
        gen_uid(book.sections[i].name, Entry(book, book.sections[i].name)["name"])]

(***************************************************************************)
(* vCard -> Abook.                                                         *)
(***************************************************************************)
conv_adr(adr, entry) ==
    LET e1 == IF adr.street # <<>> THEN Put(entry, "address", adr.street) ELSE entry
        e2 == IF adr.extended # <<>> THEN Put(e1, "address2", adr.extended) ELSE e1
        e3 == IF adr.city # <<>> THEN Put(e2, "city", adr.city) ELSE e2
        e4 == IF adr.region # <<>> THEN Put(e3, "state", adr.region) ELSE e3
        e5 == IF adr.code # <<>> /\ adr.code # <<"0">> THEN Put(e4, "zip", adr.code) ELSE e4
    IN  IF adr.country # <<>> THEN Put(e5, "country", adr.country) ELSE e5

RECURSIVE conv_tel_list(_, _)
conv_tel_list(tel_list, entry) ==
    IF tel_list = <<>> THEN entry
    ELSE LET tel == Head(tel_list)
             e == IF tel.type = <<>> THEN Put(entry, "other", tel.value)
                  ELSE IF Lower(tel.type[1]) = Home THEN Put(entry, "phone", tel.value)
                  ELSE IF Lower(tel.type[1]) = Work THEN Put(entry, "workphone", tel.value)
                  ELSE IF Lower(tel.type[1]) = Cell THEN Put(entry, "mobile", tel.value)
                  ELSE entry
         IN  conv_tel_list(Tail(tel_list), e)

\* the options to_abook stores in book[section]
to_abook_entry(card) ==
    LET e0 == Put(EmptyMap, "name", card.fn)
        e1 == IF card.email # <<>> THEN Put(e0, "email", Join(card.email, <<",">>)) ELSE e0
        e2 == IF card.adr # <<>> THEN conv_adr(card.adr[1], e1) ELSE e1
        e3 == IF card.tel # <<>> THEN conv_tel_list(card.tel, e2) ELSE e2
        e4 == IF card.nickname # <<>> THEN Put(e3, "nick", card.nickname[1]) ELSE e3
        e5 == IF card.url # <<>> THEN Put(e4, "url", card.url[1]) ELSE e4
    IN  IF card.note # <<>> THEN Put(e5, "notes", card.note[1]) ELSE e5

\* to_abook(card, section, book, bookfile): the book afterwards
to_abook(card, section, book) == SetSection(book, section, to_abook_entry(card))

\* to_abook(card, section, book, bookfile): the photo files afterwards; io_ok
\* is whether open(photo_file, 'wb') succeeds (IOError is swallowed)
to_abook_photo(card, photos, io_ok) ==
    IF card.photo # <<>> /\ io_ok
    THEN Put(photos, PhotoPath(card.fn, card.photo[1].type), card.photo[1].value)
    ELSE photos

\* abook_file(vcard, bookfile): the book written for a stream of cards
RECURSIVE abook_file_loop(_, _, _)
abook_file_loop(cards, i, book) ==
    IF i > Len(cards) THEN book
    ELSE abook_file_loop(cards, i + 1, to_abook(cards[i], IntToStr(i - 1), book))

abook_file(cards) == abook_file_loop(cards, 1, SetSection(NewBook, FormatName, FormatHeader))

\* the photo files abook_file leaves behind
RECURSIVE abook_file_photos(_, _, _)
abook_file_photos(cards, photos, io_ok) ==
    IF cards = <<>> THEN photos
    ELSE abook_file_photos(Tail(cards), to_abook_photo(Head(cards), photos, io_ok), io_ok)

(***************************************************************************)
(* State.                                                                  *)
(***************************************************************************)
VARIABLES
    file,           \* the content of self.filename, as ConfigParser reads it
    mtime,          \* getmtime(self.filename)
    photos,         \* the files of dirname(self.filename)/photo
    events,         \* self._events
    last_modified,  \* self._last_modified
    keys_is_list,   \* whether book.keys() is a list (else a KeysView)
    ret,            \* the call that returned last and what it returned
    lock,           \* self._lock: 0 when free, else the thread holding it
    pc,             \* where each thread stands
    loc,            \* each thread's arguments and local variables
    calls,          \* calls made by the threads so far
    ext,            \* rewrites of the file by another process so far
    snap            \* the mtime the file had when self._events was read from it

vars == <<file, mtime, photos, events, last_modified, keys_is_list, ret,
          lock, pc, loc, calls, ext, snap>>

Threads == {1, 2}

\* sequences over S of length 0..n
SeqUpTo(S, n) == UNION {[1..k -> S] : k \in 0..n}

\* UIDs a caller may hold: issued for any key and name, or of the wrong shape
WrongShape ==
    { <<"0">> \o Sha1Hex(NameAB) \o <<"@">> \o Fqdn,
      <<"0", "-", "1", "-">> \o Sha1Hex(NameAB) \o <<"@">> \o Fqdn }

Uids == {gen_uid(IntToStr(k), n) : k \in 0..MaxKey, n \in Names} \cup WrongShape

NoLocals == [op |-> "", uid |-> <<>>, card |-> <<>>, book |-> NewBook, section |-> 0]

\* what a call hands back: exc is the exception raised ("" for none), some
\* whether a value other than None was returned, refreshed whether to_vcf
\* ran its conversion pass
Result(op, uid, exc, some, val, refreshed) ==
    [op |-> op, uid |-> uid, exc |-> exc, some |-> some, val |-> val,
     refreshed |-> refreshed]

Returned(op, uid, val) == Result(op, uid, "", TRUE, <<val>>, FALSE)
ReturnedNone(op, uid) == Result(op, uid, "", FALSE, <<>>, FALSE)
Raised(op, uid, exc) == Result(op, uid, exc, FALSE, <<>>, FALSE)

\* Abook(filename) on a store that abook_file wrote
Init ==
    /\ \E cards \in SeqUpTo(Cards, MaxImport), io_ok \in BOOLEAN :
          /\ file = abook_file(cards)
          /\ photos = abook_file_photos(cards, EmptyMap, io_ok)
    /\ mtime = 1
    /\ events = <<>>
    /\ last_modified = 0
    /\ keys_is_list \in BOOLEAN
    /\ ret = ReturnedNone("init", <<>>)
    /\ lock = 0
    /\ pc = [t \in Threads |-> "idle"]
    /\ loc = [t \in Threads |-> NoLocals]
    /\ calls = 0
    /\ ext = 0
    /\ snap = 0

\* the times a write of the file may leave as its mtime: the clock tick of
\* the last write, or a later one
Stamps == {m \in {mtime, mtime + 1} : m <= MaxTime}

\* whether open(photo_file, 'wb') may fail matters only to a card with a photo
IoOutcomes(card) == IF card.photo # <<>> THEN BOOLEAN ELSE {TRUE}

(***************************************************************************)
(* The UID check of remove, replace_vobject and to_vobject.                *)
(***************************************************************************)
\* len(uid) != 2 makes the caller return at once
ShapeOk(uid) == Len(SplitUid(uid)) = 2

\* a slip: the hash of the UID is not looked at
HashIgnored(uid, book) == NameKnown(book, SplitUid(uid)[1])

\* linehash == uid[1]
HashMatches(uid, book) ==
    Sha1Hex(Entry(book, SplitUid(uid)[1])["name"]) = SplitUid(uid)[2]

\* the check as a whole: the UID addresses a record of the book
Verifies(uid, book) ==
    /\ ShapeOk(uid)
    /\ NameKnown(book, SplitUid(uid)[1])
    /\ HashMatches(uid, book)

\* a slip: >= for >
NewerOrSame(m, last) == m >= last

\* getmtime(self.filename) > self._last_modified
Newer(m, last) == m > last

\* max([int(k) for k in book.keys()[1:]])
MaxSection(book) ==
    MaxOf([i \in 1..Len(Tail(Keys(book))) |-> StrToInt(Tail(Keys(book))[i])])

\* the section append_vobject writes and the index its UID carries
AppendTarget(section) == section + 1
AppendUidIndex(section) == section

ConcFrame == UNCHANGED <<lock, pc, loc, calls, ext, snap>>

(***************************************************************************)
(* The facade called by one caller at a time: each call is one step.       *)
(***************************************************************************)
\* to_vcf()
ToVcf ==
    /\ IF Newer(mtime, last_modified)
       THEN /\ events' = to_vcards(file, photos)
            /\ last_modified' = mtime
            /\ snap' = mtime
       ELSE UNCHANGED <<events, last_modified, snap>>
    /\ ret' = Result("to_vcf", <<>>, "", TRUE, <<events'>>, Newer(mtime, last_modified))
    /\ UNCHANGED <<file, mtime, photos, keys_is_list, lock, pc, loc, calls, ext>>

\* append_vobject(card)
AppendVobject(card) ==
    /\ IF ~keys_is_list
       THEN \* book.keys()[1:] on a KeysView
            /\ ret' = Raised("append", <<>>, "TypeError")
            /\ UNCHANGED <<file, mtime, photos>>
       ELSE IF Tail(Keys(file)) = <<>>
       THEN \* max([])
            /\ ret' = Raised("append", <<>>, "ValueError")
            /\ UNCHANGED <<file, mtime, photos>>
       ELSE /\ AppendTarget(MaxSection(file)) <= MaxKey
            /\ file' = to_abook(card, IntToStr(AppendTarget(MaxSection(file))), file)
            /\ \E io_ok \in IoOutcomes(card) : photos' = to_abook_photo(card, photos, io_ok)
            /\ mtime' \in Stamps
            /\ ret' = Returned("append", <<>>,
                         gen_uid(IntToStr(AppendUidIndex(MaxSection(file))), card.fn))
    /\ UNCHANGED <<events, last_modified, keys_is_list>>
    /\ ConcFrame

\* remove(name)
Remove(uid) ==
    /\ IF ~ShapeOk(uid)
       THEN /\ ret' = ReturnedNone("remove", uid)
            /\ UNCHANGED <<file, mtime>>
       ELSE IF ~NameKnown(file, SplitUid(uid)[1])
       THEN \* book[uid[0]]['name']
            /\ ret' = Raised("remove", uid, "KeyError")
            /\ UNCHANGED <<file, mtime>>
       ELSE IF HashMatches(uid, file)
       THEN /\ file' = DelSection(file, SplitUid(uid)[1])
            /\ mtime' \in Stamps
            /\ ret' = ReturnedNone("remove", uid)
       ELSE /\ ret' = ReturnedNone("remove", uid)
            /\ UNCHANGED <<file, mtime>>
    /\ UNCHANGED <<photos, events, last_modified, keys_is_list>>
    /\ ConcFrame

\* replace_vobject(name, card)
ReplaceVobject(uid, card) ==
    /\ IF ~ShapeOk(uid)
       THEN /\ ret' = ReturnedNone("replace", uid)
            /\ UNCHANGED <<file, mtime, photos>>
       ELSE IF ~NameKnown(file, SplitUid(uid)[1])
       THEN /\ ret' = Raised("replace", uid, "KeyError")
            /\ UNCHANGED <<file, mtime, photos>>
       ELSE IF HashMatches(uid, file)
       THEN /\ file' = to_abook(card, SplitUid(uid)[1], file)
            /\ \E io_ok \in IoOutcomes(card) : photos' = to_abook_photo(card, photos, io_ok)
            /\ mtime' \in Stamps
            /\ ret' = Returned("replace", uid, gen_uid(SplitUid(uid)[1], card.fn))
       ELSE /\ ret' = Returned("replace", uid, gen_uid(SplitUid(uid)[1], card.fn))
            /\ UNCHANGED <<file, mtime, photos>>
    /\ UNCHANGED <<events, last_modified, keys_is_list>>
    /\ ConcFrame

\* to_vobject(uid=uid)
ToVobject(uid) ==
    /\ ret' = IF ~ShapeOk(uid) THEN ReturnedNone("to_vobject", uid)
              ELSE IF ~NameKnown(file, SplitUid(uid)[1])
              THEN Raised("to_vobject", uid, "KeyError")
              ELSE IF HashMatches(uid, file)
              THEN Returned("to_vobject", uid,
                       to_vcard(SplitUid(uid)[1], Entry(file, SplitUid(uid)[1]), photos))
              ELSE ReturnedNone("to_vobject", uid)
    /\ UNCHANGED <<file, mtime, photos, events, last_modified, keys_is_list>>
    /\ ConcFrame

\* get_uids()
GetUids ==
    /\ ret' = Returned("get_uids", <<>>, get_uids(file))
    /\ UNCHANGED <<file, mtime, photos, events, last_modified, keys_is_list>>
    /\ ConcFrame

\* to_vcards()
ToVcards ==
    /\ ret' = Returned("to_vcards", <<>>, to_vcards(file, photos))
    /\ UNCHANGED <<file, mtime, photos, events, last_modified, keys_is_list>>
    /\ ConcFrame

\* abook_file(vcard, bookfile) run on the same path (vcf2abook)
AbookFile(cards) ==
    /\ file' = abook_file(cards)
    /\ \E io_ok \in BOOLEAN : photos' = abook_file_photos(cards, photos, io_ok)
    /\ mtime' \in Stamps
    /\ ret' = ReturnedNone("abook_file", <<>>)
    /\ UNCHANGED <<events, last_modified, keys_is_list>>
    /\ ConcFrame

\* the store operations of the facade
Next ==
    \/ \E card \in Cards : AppendVobject(card)
    \/ \E uid \in Uids : Remove(uid)
    \/ \E uid \in Uids, card \in Cards : ReplaceVobject(uid, card)
    \/ \E uid \in Uids : ToVobject(uid)
    \/ GetUids
    \/ ToVcards

Spec == Init /\ [][Next]_vars

\* the read path over a file that is rewritten between reads
NextCache ==
    \/ ToVcf
    \/ \E cards \in SeqUpTo(Cards, MaxImport) : AbookFile(cards)

SpecCache == Init /\ [][NextCache]_vars

(***************************************************************************)
(* The facade called from several threads, with another process rewriting  *)
(* the file.  A call is a sequence of steps: taking self._lock, opening    *)
(* the file, reading it, open(self.filename, 'w') (which truncates it),    *)
(* writing it.  A store this small is written by one write() at close, so  *)
(* a reader sees the old content, the empty file or the new content.       *)
(***************************************************************************)
\* the arguments the threads call with
ConcUids == {gen_uid(<<"0">>, NameAB), gen_uid(<<"0">>, NameC),
             <<"0">> \o Sha1Hex(NameAB) \o <<"@">> \o Fqdn}
ConcCards == {CardC}

InitConc ==
    /\ file = abook_file(<<CardAB>>)
    /\ photos = EmptyMap
    /\ mtime = 1
    /\ events = <<>>
    /\ last_modified = 0
    /\ keys_is_list \in BOOLEAN
    /\ ret = ReturnedNone("init", <<>>)
    /\ lock = 0
    /\ pc = [t \in Threads |-> "idle"]
    /\ loc = [t \in Threads |-> NoLocals]
    /\ calls = 0
    /\ ext = 0
    /\ snap = 0

Locked == {"to_vcf", "append", "remove", "replace"}

Goto(t, label) == pc' = [pc EXCEPT ![t] = label]

\* a thread calls to_vcf, append_vobject, get_uids, to_vobject or to_vcards
Call(t, op, uid, card) ==
    /\ pc[t] = "idle"
    /\ calls < MaxCalls
    /\ op \in {"to_vcf", "append", "get_uids", "to_vobject", "to_vcards"}
    /\ calls' = calls + 1
    /\ loc' = [loc EXCEPT ![t] = [op |-> op, uid |-> uid, card |-> <<card>>,
                                   book |-> NewBook, section |-> 0]]
    /\ Goto(t, IF op \in Locked THEN "lock" ELSE "open")
    /\ UNCHANGED <<file, mtime, photos, events, last_modified, keys_is_list, ret,
                   lock, ext, snap>>

\* a thread calls remove or replace_vobject: the shape of the UID is tested
\* before the lock is taken
CallUid(t, op, uid, card) ==
    /\ pc[t] = "idle"
    /\ calls < MaxCalls
    /\ op \in {"remove", "replace"}
    /\ calls' = calls + 1
    /\ IF ShapeOk(uid)
       THEN /\ loc' = [loc EXCEPT ![t] = [op |-> op, uid |-> uid, card |-> <<card>>,
                                           book |-> NewBook, section |-> 0]]
            /\ Goto(t, "lock")
            /\ UNCHANGED ret
       ELSE /\ ret' = ReturnedNone(op, uid)
            /\ UNCHANGED <<loc, pc>>
    /\ UNCHANGED <<file, mtime, photos, events, last_modified, keys_is_list,
                   lock, ext, snap>>

\* with self._lock:
Acquire(t) ==
    /\ pc[t] = "lock"
    /\ lock = 0
    /\ lock' = t
    /\ Goto(t, IF loc[t].op = "to_vcf" THEN "check" ELSE "open")
    /\ UNCHANGED <<file, mtime, photos, events, last_modified, keys_is_list, ret,
                   loc, calls, ext, snap>>

\* to_vcf: if getmtime(self.filename) > self._last_modified
Check(t) ==
    /\ pc[t] = "check"
    /\ IF Newer(mtime, last_modified)
       THEN Goto(t, "open") /\ UNCHANGED lock
       ELSE Goto(t, "join") /\ lock' = 0
    /\ UNCHANGED <<file, mtime, photos, events, last_modified, keys_is_list, ret,
                   loc, calls, ext, snap>>

\* book.read(self.filename) opens the file
Open(t) ==
    /\ pc[t] = "open"
    /\ Goto(t, "read")
    /\ UNCHANGED <<file, mtime, photos, events, last_modified, keys_is_list, ret,
                   lock, loc, calls, ext, snap>>

\* to_vcf: self._events = self.to_vcards()
ReadVcf(t) ==
    /\ pc[t] = "read" /\ loc[t].op = "to_vcf"
    /\ events' = to_vcards(file, photos)
    /\ snap' = mtime
    /\ Goto(t, "stamp")
    /\ UNCHANGED <<file, mtime, photos, last_modified, keys_is_list, ret,
                   lock, loc, calls, ext>>

\* to_vcf: self._last_modified = getmtime(self.filename), leaving the with
Stamp(t) ==
    /\ pc[t] = "stamp"
    /\ last_modified' = mtime
    /\ lock' = 0
    /\ Goto(t, "join")
    /\ UNCHANGED <<file, mtime, photos, events, keys_is_list, ret,
                   loc, calls, ext, snap>>

\* to_vcf: return '\r\n'.join([v.serialize() for v in self._events])
JoinEvents(t) ==
    /\ pc[t] = "join"
    /\ ret' = Result("to_vcf", <<>>, "", TRUE, <<events>>, FALSE)
    /\ Goto(t, "idle")
    /\ UNCHANGED <<file, mtime, photos, events, last_modified, keys_is_list,
                   lock, loc, calls, ext, snap>>

\* append_vobject: the file is read, the section computed and filled in
ReadAppend(t) ==
    /\ pc[t] = "read" /\ loc[t].op = "append"
    /\ IF ~keys_is_list
       THEN /\ ret' = Raised("append", <<>>, "TypeError")
            /\ lock' = 0 /\ Goto(t, "idle")
            /\ UNCHANGED <<loc, photos>>
       ELSE IF Tail(Keys(file)) = <<>>
       THEN /\ ret' = Raised("append", <<>>, "ValueError")
            /\ lock' = 0 /\ Goto(t, "idle")
            /\ UNCHANGED <<loc, photos>>
       ELSE /\ AppendTarget(MaxSection(file)) <= MaxKey
            /\ loc' = [loc EXCEPT
                         ![t].book = to_abook(loc[t].card[1],
                                         IntToStr(AppendTarget(MaxSection(file))), file),
                         ![t].section = MaxSection(file)]
            /\ \E io_ok \in IoOutcomes(loc[t].card[1]) :
                  photos' = to_abook_photo(loc[t].card[1], photos, io_ok)
            /\ Goto(t, "trunc")
            /\ UNCHANGED <<ret, lock>>
    /\ UNCHANGED <<file, mtime, events, last_modified, keys_is_list, calls, ext, snap>>

\* remove: the file is read and the hash compared
ReadRemove(t) ==
    /\ pc[t] = "read" /\ loc[t].op = "remove"
    /\ IF ~NameKnown(file, SplitUid(loc[t].uid)[1])
       THEN /\ ret' = Raised("remove", loc[t].uid, "KeyError")
            /\ lock' = 0 /\ Goto(t, "idle")
            /\ UNCHANGED loc
       ELSE IF HashMatches(loc[t].uid, file)
       THEN /\ loc' = [loc EXCEPT ![t].book = DelSection(file, SplitUid(loc[t].uid)[1])]
            /\ Goto(t, "trunc")
            /\ UNCHANGED <<ret, lock>>
       ELSE /\ ret' = ReturnedNone("remove", loc[t].uid)
            /\ lock' = 0 /\ Goto(t, "idle")
            /\ UNCHANGED loc
    /\ UNCHANGED <<file, mtime, photos, events, last_modified, keys_is_list,
                   calls, ext, snap>>

\* replace_vobject: the file is read and the hash compared
ReadReplace(t) ==
    /\ pc[t] = "read" /\ loc[t].op = "replace"
    /\ IF ~NameKnown(file, SplitUid(loc[t].uid)[1])
       THEN /\ ret' = Raised("replace", loc[t].uid, "KeyError")
            /\ lock' = 0 /\ Goto(t, "idle")
            /\ UNCHANGED <<loc, photos>>
       ELSE IF HashMatches(loc[t].uid, file)
       THEN /\ loc' = [loc EXCEPT
                         ![t].book = to_abook(loc[t].card[1], SplitUid(loc[t].uid)[1], file)]
            /\ \E io_ok \in IoOutcomes(loc[t].card[1]) :
                  photos' = to_abook_photo(loc[t].card[1], photos, io_ok)
            /\ Goto(t, "trunc")
            /\ UNCHANGED <<ret, lock>>
       ELSE /\ ret' = Returned("replace", loc[t].uid,
                         gen_uid(SplitUid(loc[t].uid)[1], loc[t].card[1].fn))
            /\ lock' = 0 /\ Goto(t, "idle")
            /\ UNCHANGED <<loc, photos>>
    /\ UNCHANGED <<file, mtime, events, last_modified, keys_is_list, calls, ext, snap>>

\* with open(self.filename, 'w') as fp: the file is empty from here on
Truncate(t) ==
    /\ pc[t] = "trunc"
    /\ file' = NewBook
    /\ mtime' \in Stamps
    /\ Goto(t, "write")
    /\ UNCHANGED <<photos, events, last_modified, keys_is_list, ret,
                   lock, loc, calls, ext, snap>>

\* book.write(fp, False), the file is closed, the lock released, the call returns
Write(t) ==
    /\ pc[t] = "write"
    /\ file' = loc[t].book
    /\ mtime' \in Stamps
    /\ lock' = 0
    /\ ret' = CASE loc[t].op = "append" ->
                     Returned("append", <<>>,
                         gen_uid(IntToStr(AppendUidIndex(loc[t].section)), loc[t].card[1].fn))
                [] loc[t].op = "replace" ->
                     Returned("replace", loc[t].uid,
                         gen_uid(SplitUid(loc[t].uid)[1], loc[t].card[1].fn))
                [] OTHER -> ReturnedNone("remove", loc[t].uid)
    /\ Goto(t, "idle")
    /\ UNCHANGED <<photos, events, last_modified, keys_is_list, loc, calls, ext, snap>>

\* get_uids, without the lock
ReadGetUids(t) ==
    /\ pc[t] = "read" /\ loc[t].op = "get_uids"
    /\ ret' = Returned("get_uids", <<>>, get_uids(file))
    /\ Goto(t, "idle")
    /\ UNCHANGED <<file, mtime, photos, events, last_modified, keys_is_list,
                   lock, loc, calls, ext, snap>>

\* to_vobject, without the lock
ReadToVobject(t) ==
    /\ pc[t] = "read" /\ loc[t].op = "to_vobject"
    /\ ret' = IF ~ShapeOk(loc[t].uid) THEN ReturnedNone("to_vobject", loc[t].uid)
              ELSE IF ~NameKnown(file, SplitUid(loc[t].uid)[1])
              THEN Raised("to_vobject", loc[t].uid, "KeyError")
              ELSE IF HashMatches(loc[t].uid, file)
              THEN Returned("to_vobject", loc[t].uid,
                       to_vcard(SplitUid(loc[t].uid)[1],
                                Entry(file, SplitUid(loc[t].uid)[1]), photos))
              ELSE ReturnedNone("to_vobject", loc[t].uid)
    /\ Goto(t, "idle")
    /\ UNCHANGED <<file, mtime, photos, events, last_modified, keys_is_list,
                   lock, loc, calls, ext, snap>>

\* to_vcards, without the lock
ReadToVcards(t) ==
    /\ pc[t] = "read" /\ loc[t].op = "to_vcards"
    /\ ret' = Returned("to_vcards", <<>>, to_vcards(file, photos))
    /\ Goto(t, "idle")
    /\ UNCHANGED <<file, mtime, photos, events, last_modified, keys_is_list,
                   lock, loc, calls, ext, snap>>

\* another process (vcf2abook, or another Abook instance) rewrites the file
ExtWrite(cards) ==
    /\ ext < MaxExt
    /\ ext' = ext + 1
    /\ file' = abook_file(cards)
    /\ \E io_ok \in BOOLEAN : photos' = abook_file_photos(cards, photos, io_ok)
    /\ mtime' \in Stamps
    /\ UNCHANGED <<events, last_modified, keys_is_list, ret,
                   lock, pc, loc, calls, snap>>

NextConc ==
    \/ \E t \in Threads, op \in {"to_vcf", "get_uids", "to_vcards"} :
          Call(t, op, <<>>, CardC)
    \/ \E t \in Threads, card \in ConcCards : Call(t, "append", <<>>, card)
    \/ \E t \in Threads, uid \in ConcUids : Call(t, "to_vobject", uid, CardC)
    \/ \E t \in Threads, uid \in ConcUids : CallUid(t, "remove", uid, CardC)
    \/ \E t \in Threads, uid \in ConcUids, card \in ConcCards : CallUid(t, "replace", uid, card)
    \/ \E t \in Threads : Acquire(t)
    \/ \E t \in Threads : Check(t)
    \/ \E t \in Threads : Open(t)
    \/ \E t \in Threads : ReadVcf(t)
    \/ \E t \in Threads : Stamp(t)
    \/ \E t \in Threads : JoinEvents(t)
    \/ \E t \in Threads : ReadAppend(t)
    \/ \E t \in Threads : ReadRemove(t)
    \/ \E t \in Threads : ReadReplace(t)
    \/ \E t \in Threads : Truncate(t)
    \/ \E t \in Threads : Write(t)
    \/ \E t \in Threads : ReadGetUids(t)
    \/ \E t \in Threads : ReadToVobject(t)
    \/ \E t \in Threads : ReadToVcards(t)
    \/ \E cards \in {<<CardC>>} : ExtWrite(cards)

SpecConc == InitConc /\ [][NextConc]_vars

(***************************************************************************)
(* Properties.                                                             *)
(***************************************************************************)
\* the record of the book under key, if any, bears this name
NamedAt(book, key, name) == HasSection(book, key) /\ Entry(book, key)["name"] = name

\* the UID is the one issued for the record now under key
IssuedFor(uid, book, key) ==
    HasSection(book, key) /\ uid = gen_uid(key, Entry(book, key)["name"])

\* the sections of the book other than the one under key, in file order
Others(book, key) == SelectSeq(book.sections, LAMBDA sec : sec.name # key)

\* C1: an append on a store with a data section that returns a UID has put
\* the card under max(existing keys) + 1, and the key of the UID it returns
\* is that key, so that the UID addresses the new record
C1_AppendUidAddressesNewRecord ==
    [][ (ret'.op = "append" /\ ret'.exc = "" /\ file.sections # <<>>) =>
          LET new == file'.sections[Len(file'.sections)]
          IN  /\ Len(file'.sections) = Len(file.sections) + 1
              /\ \A i \in 1..Len(file.sections) :
                    StrToInt(file.sections[i].name) < StrToInt(new.name)
              /\ \E i \in 1..Len(file.sections) :
                    StrToInt(file.sections[i].name) + 1 = StrToInt(new.name)
              /\ SplitUid(ret'.val[1])[1] = new.name
              /\ IssuedFor(ret'.val[1], file', new.name) ]_vars

\* C2: an append on a store without data sections succeeds and puts the
\* card under key 0
C2_AppendToEmptyStoreUsesKeyZero ==
    [][ (ret'.op = "append" /\ file.sections = <<>>) =>
          /\ ret'.exc = ""
          /\ Sections(file') = << <<"0">> >> ]_vars

\* C3: remove with a UID of the right shape whose key is in the store raises
\* nothing; it leaves the file as it was when the hash is not that of the
\* record's name, and deletes that one section when it is
C3_RemoveOnlyOnMatchingHash ==
    [][ ret'.op = "remove" => \A k \in 0..MaxKey, n \in Names :
          (/\ ret'.uid = gen_uid(IntToStr(k), n)
           /\ HasSection(file, IntToStr(k))) =>
             /\ ret'.exc = ""
             /\ IF NamedAt(file, IntToStr(k), n)
                THEN /\ file'.format = file.format
                     /\ file'.sections = Others(file, IntToStr(k))
                     /\ Len(file'.sections) = Len(file.sections) - 1
                ELSE file' = file ]_vars

\* C3 witness: a remove with a stale UID has returned and its record is there
C3_Witness ==
    /\ ret.op = "remove" /\ ret.exc = ""
    /\ \E k \in 0..MaxKey, n \in Names :
          /\ ret.uid = gen_uid(IntToStr(k), n)
          /\ HasSection(file, IntToStr(k))
          /\ ~NamedAt(file, IntToStr(k), n)

\* C4: remove, replace and to_vobject with a UID of the wrong shape, or one
\* whose key is not in the store, raise nothing, return nothing and leave
\* the store as it was
C4_UnmatchedUidIsNoOp ==
    [][ (/\ ret'.op \in {"remove", "replace", "to_vobject"}
         /\ (~ShapeOk(ret'.uid) \/ ~HasSection(file, SplitUid(ret'.uid)[1]))) =>
          /\ ret'.exc = ""
          /\ ~ret'.some
          /\ file' = file ]_vars

\* C5: replace with the UID issued for a record writes the card's fields
\* under the same key, keeps the keys and their order and every other
\* section, and returns the UID of key and new name, which verifies
\* afterwards, while the UID of the call does not once the name has changed
C5_ReplaceKeepsKeyAndOrder ==
    [][ ret'.op = "replace" => \A k \in 0..MaxKey :
          IssuedFor(ret'.uid, file, IntToStr(k)) =>
             /\ ret'.exc = "" /\ ret'.some
             /\ Sections(file') = Sections(file)
             /\ file'.format = file.format
             /\ Others(file', IntToStr(k)) = Others(file, IntToStr(k))
             /\ \E card \in Cards :
                   /\ file'.sections[SectionIndex(file', IntToStr(k))].fields
                         = to_abook_entry(card)
                   /\ ret'.val[1] = gen_uid(IntToStr(k), card.fn)
             /\ Verifies(ret'.val[1], file')
             /\ (Entry(file', IntToStr(k))["name"] # Entry(file, IntToStr(k))["name"]
                    => ~Verifies(ret'.uid, file')) ]_vars

\* C5 witness: a replace has renamed the first of two records
C5_Witness ==
    /\ ret.op = "replace" /\ ret.some
    /\ Len(file.sections) >= 2
    /\ IssuedFor(ret.val[1], file, file.sections[1].name)
    /\ ShapeOk(ret.uid)
    /\ SplitUid(ret.uid)[1] = file.sections[1].name
    /\ ~Verifies(ret.uid, file)

\* C6: replace with a UID whose hash is not that of the name of the record
\* under its key leaves the store as it was and returns nothing, and
\* to_vobject returns nothing for such a UID
C6_StaleUidReturnsNothing ==
    [][ (/\ ret'.op \in {"replace", "to_vobject"}
         /\ ShapeOk(ret'.uid)
         /\ HasSection(file, SplitUid(ret'.uid)[1])
         /\ ~IssuedFor(ret'.uid, file, SplitUid(ret'.uid)[1])) =>
          /\ ret'.exc = ""
          /\ ~ret'.some
          /\ file' = file ]_vars

\* C7: to_vcf runs its conversion pass exactly when the file's mtime is
\* greater than the cached one and else hands out the cached cards as they
\* are; a read that follows a read with nothing in between converts nothing
\* and returns the same
C7_RefreshIffNewer ==
    [][ ret'.op = "to_vcf" =>
          /\ ret'.refreshed <=> (mtime > last_modified)
          /\ ret'.refreshed => (events' = to_vcards(file, photos) /\ last_modified' = mtime)
          /\ ~ret'.refreshed => (events' = events /\ last_modified' = last_modified)
          /\ ret'.val = <<events'>>
          /\ ret.op = "to_vcf" => (~ret'.refreshed /\ ret'.val = ret.val) ]_vars

\* C7 witness: a read has handed out cached cards that the file, rewritten
\* within the same tick of the clock, no longer holds
C7_Witness ==
    /\ ret.op = "to_vcf" /\ ~ret.refreshed
    /\ mtime = last_modified
    /\ events # <<>>
    /\ events # to_vcards(file, photos)
    /\ ret.val = <<events>>

\* a thread has the store file open
InStore(t) == pc[t] \in {"read", "write"}

\* a thread is between reading self._last_modified and storing it
InCache(t) == pc[t] \in {"check", "stamp"} \/ (pc[t] \in {"open", "read"} /\ loc[t].op = "to_vcf")

\* C8: no two threads are inside a read or write of the store or of the
\* cache at the same time
C8_OperationsSerialized ==
    \A t \in Threads, u \in Threads :
        t # u => ~((InStore(t) \/ InCache(t)) /\ (InStore(u) \/ InCache(u)))

\* C9: the UID made from a key and a name verifies against the store exactly
\* when the record under the key bears that name
C9_UidVerifiesIffCurrentName ==
    \A k \in 0..MaxKey, n \in Names :
        Verifies(gen_uid(IntToStr(k), n), file) <=> NamedAt(file, IntToStr(k), n)

\* C9 witness: the only record bears a new name; the UID issued for the old
\* name is the one the caller passed, the UID for the new name the one returned
C9_Witness ==
    /\ ret.op = "replace" /\ ret.some
    /\ \E k \in 0..MaxKey, old \in Names, new \in Names :
          /\ old # new
          /\ ret.uid = gen_uid(IntToStr(k), old)
          /\ ret.val = <<gen_uid(IntToStr(k), new)>>
          /\ NamedAt(file, IntToStr(k), new)
          /\ Len(file.sections) = 1

\* C10: outside a refresh, the cached modification time is the one the file
\* had when the cached cards were read from it
C10_CacheStampIsThatOfContent ==
    (\A t \in Threads : pc[t] # "stamp") => last_modified = snap

====
